---------------------------- MODULE Spec2Model ----------------------------
(***************************************************************************)
(* A model of excelJson.py: the identifier sanitizer, the dtype-to-SQL     *)
(* mapper, the cleaner, the SQL generator and the Start Process gating of  *)
(* the Streamlit script.                                                   *)
(*                                                                         *)
(* Text is modelled as a sequence of characters, each character a          *)
(* one-element string ("a", "7", "'"); a non-ASCII code point is written   *)
(* by its name ("U+00E9").  pandas follows the 1.x/2.x behaviour: object   *)
(* dtype for text, astype(str) turns a missing value into its name.        *)
(***************************************************************************)
EXTENDS Integers, Sequences, FiniteSets, TLC

VARIABLES
    \* ---- sanitize_name applied once and twice
    name,            \* the input string
    sanitized,       \* sanitize_name(name)
    resanitized,     \* sanitize_name(sanitized)
    pcName,          \* "input" | "once" | "twice"
    \* ---- the pipeline of the main script: clean_data, then generate_sql
    original_df,     \* the table load_data returned
    selected_cols,   \* selected_cleaning_cols
    cleaned_df,      \* clean_data(original_df, selected_cols)
    sql_dialect,     \* the dialect of the sidebar
    sql_out,         \* generate_sql(cleaned_df, sql_table_name, sql_dialect)
    loaded_df,       \* history: the table as load_data returned it
    df_seen,         \* history: cleaned_df as clean_data returned it
    pc,              \* "loaded" | "cleaned" | "generated"
    \* ---- the script's reruns
    uploaded_file,   \* the file of the uploader, or NoFile
    selected_sheet,  \* the sheet of this rerun, or NoSheet
    process_started, \* st.session_state['process_started']
    process_sheet,   \* st.session_state['process_sheet']
    clicked,         \* what st.button returned in this rerun
    pipeline_ran,    \* whether this rerun entered the block of line 238
    ever_clicked,    \* history: Start Process was clicked in this session
    last_click_sheet,\* history: the selected sheet at the latest click
    reruns           \* the number of reruns so far

nameVars == <<name, sanitized, resanitized, pcName>>
pipeVars == <<original_df, selected_cols, cleaned_df, sql_dialect, sql_out,
              loaded_df, df_seen, pc>>
uiVars   == <<uploaded_file, selected_sheet, process_started, process_sheet,
              clicked, pipeline_ran, ever_clicked, last_click_sheet, reruns>>
vars     == <<nameVars, pipeVars, uiVars>>

---------------------------------------------------------------------------
(* Characters and the str methods the script uses.                         *)

UpperCase == <<"A","B","C","D","E","F","G","H","I","J","K","L","M",
               "N","O","P","Q","R","S","T","U","V","W","X","Y","Z">>
LowerCase == <<"a","b","c","d","e","f","g","h","i","j","k","l","m",
               "n","o","p","q","r","s","t","u","v","w","x","y","z">>
AsciiUpper == {UpperCase[i] : i \in DOMAIN UpperCase}
AsciiLower == {LowerCase[i] : i \in DOMAIN LowerCase}
Digits     == {"0","1","2","3","4","5","6","7","8","9"}
Whitespace == {" ", "\t"}
\* Letters outside ASCII: e with acute, capital I with dot above.
OtherLetters == {"U+00E9", "U+0130"}
\* \w of a str pattern: every alphanumeric code point, and the underscore.
\* The combining dot above, "U+0307", is none.
WordChars  == AsciiUpper \cup AsciiLower \cup Digits \cup OtherLetters \cup {"_"}

\* str.isdigit of one character
isdigit(c) == c \in Digits

\* str.lower of one character: U+0130 lowers to "i" and a combining dot
lower_char(c) ==
    IF c \in AsciiUpper
    THEN <<LowerCase[CHOOSE i \in DOMAIN UpperCase : UpperCase[i] = c]>>
    ELSE IF c = "U+0130" THEN <<"i", "U+0307">>
    ELSE <<c>>

RECURSIVE lower(_)
lower(s) == IF s = <<>> THEN <<>> ELSE lower_char(Head(s)) \o lower(Tail(s))

RECURSIVE lstrip(_, _)
lstrip(s, set) ==
    IF s # <<>> /\ Head(s) \in set THEN lstrip(Tail(s), set) ELSE s

RECURSIVE rstrip(_, _)
rstrip(s, set) ==
    IF s # <<>> /\ s[Len(s)] \in set
    THEN rstrip(SubSeq(s, 1, Len(s) - 1), set) ELSE s

\* str.strip(): whitespace by default, the given characters otherwise
strip(s, set) == rstrip(lstrip(s, set), set)

\* re.sub(r'[^\w]', '_', s)
sub_nonword(s) ==
    [i \in 1..Len(s) |-> IF s[i] \in WordChars THEN s[i] ELSE "_"]

\* re.sub(r'_+', '_', s)
RECURSIVE sub_underscores(_)
sub_underscores(s) ==
    IF Len(s) < 2 THEN s
    ELSE IF s[1] = "_" /\ s[2] = "_" THEN sub_underscores(Tail(s))
    ELSE <<s[1]>> \o sub_underscores(Tail(s))

\* str.replace("'", "''")
RECURSIVE replace_quote(_)
replace_quote(s) ==
    IF s = <<>> THEN <<>>
    ELSE (IF Head(s) = "'" THEN <<"'", "'">> ELSE <<Head(s)>>)
         \o replace_quote(Tail(s))

---------------------------------------------------------------------------
(* sanitize_name                                                           *)

col_prefix == <<"c", "o", "l", "_">>

\* A slip: the digit test reads the last character, not the first.
sanitize_name_lastdigit(n) ==
    LET n1 == sub_nonword(strip(n, Whitespace))
        n2 == strip(sub_underscores(n1), {"_"})
        n3 == IF n2 = <<>> \/ isdigit(n2[Len(n2)]) THEN col_prefix \o n2 ELSE n2
    IN  lower(n3)

\* A slip: the final lower() is left out.
sanitize_name_nolower(n) ==
    LET n1 == sub_nonword(strip(n, Whitespace))
        n2 == strip(sub_underscores(n1), {"_"})
    IN  IF n2 = <<>> \/ isdigit(n2[1]) THEN col_prefix \o n2 ELSE n2

sanitize_name(n) ==
    LET n1 == sub_nonword(strip(n, Whitespace))
        n2 == strip(sub_underscores(n1), {"_"})
        n3 == IF n2 = <<>> \/ isdigit(n2[1]) THEN col_prefix \o n2 ELSE n2
    IN  lower(n3)


---------------------------------------------------------------------------
(* Tables.  A cell is its runtime class and the text str() gives for it;   *)
(* a table is its column names, their dtypes, the index labels and rows.   *)

Cell(kind, text) == [kind |-> kind, text |-> text]

\* The classes isinstance(val, (int, float)) accepts: int, bool (a subclass
\* of int), float and numpy.float64 (a subclass of float).  numpy.int64 and
\* numpy.bool_ are subclasses of neither.
IntOrFloatKinds == {"int", "bool", "float"}
\* The values pd.isna accepts
MissingKinds == {"NaN", "NaT", "NA"}

cInt7   == Cell("int", <<"7">>)
cInt30  == Cell("int", <<"3", "0">>)
cFloat  == Cell("float", <<"1", ".", "5">>)
cNaN    == Cell("NaN", <<"n", "a", "n">>)
cTrue   == Cell("bool", <<"T", "r", "u", "e">>)
cFalse  == Cell("bool", <<"F", "a", "l", "s", "e">>)
cStamp  == Cell("Timestamp", <<"2","0","2","4","-","0","1","-","0","2"," ",
                               "0","9",":","3","0",":","0","0">>)
cNaT    == Cell("NaT", <<"N", "a", "T">>)
\* pd.NA, the value the replace of lines 97-105 writes
cNA     == Cell("NA", <<"<", "N", "A", ">">>)
cQuote  == Cell("str", <<"O", "'", "N">>)
cPadNA  == Cell("str", <<" ", "n", "A", " ">>)
cNsx    == Cell("str", <<"n", "s", "x">>)
cBlank  == Cell("str", <<" ">>)
cNULL   == Cell("str", <<"N", "U", "L", "L">>)
cNotAv  == Cell("str", <<"N","o","t"," ","A","v","a","i","l","a","b","l","e">>)
cNone   == Cell("str", <<"N", "o", "n", "e">>)
cNs     == Cell("str", <<"N", "s">>)

\* str(dtype) of the dtypes pd.read_excel gives a column
Int64    == <<"i", "n", "t", "6", "4">>
Float64  == <<"f", "l", "o", "a", "t", "6", "4">>
Bool     == <<"b", "o", "o", "l">>
Datetime == <<"d","a","t","e","t","i","m","e","6","4","[","n","s","]">>
Object   == <<"o", "b", "j", "e", "c", "t">>

\* The kinds of column a sheet holds: a dtype and the cells drawn for it.
IntCol    == [dtype |-> Int64,    cells |-> {cInt7, cInt30}]
FloatCol  == [dtype |-> Float64,  cells |-> {cFloat, cNaN}]
BoolCol   == [dtype |-> Bool,     cells |-> {cTrue, cFalse}]
StampCol  == [dtype |-> Datetime, cells |-> {cStamp, cNaT}]
TextCol   == [dtype |-> Object,   cells |-> {cQuote, cPadNA, cNsx}]
MixedCol  == [dtype |-> Object,   cells |-> {cNaN, cBlank, cInt30}]
TokenCol  == [dtype |-> Object,   cells |-> {cNULL, cNotAv, cNone, cNs}]

\* Column names: "Age" and "age!" sanitize to the same identifier.
nAge   == <<"A", "g", "e">>
nAgeX  == <<"a", "g", "e", "!">>
nName  == <<"N", "a", "m", "e">>
n7up   == <<"7", "u", "p">>
\* A name no sheet has
nAbsent == <<"Z">>

Named(n, col) == [name |-> n, dtype |-> col.dtype, cells |-> col.cells]

Schemas == {
    <<>>,
    <<Named(nAge, IntCol)>>,
    <<Named(nAge, FloatCol)>>,
    <<Named(nAge, BoolCol)>>,
    <<Named(n7up, StampCol)>>,
    <<Named(nName, TextCol)>>,
    <<Named(nAge, MixedCol)>>,
    <<Named(nName, TokenCol)>>,
    <<Named(nAge, IntCol), Named(n7up, FloatCol)>>,
    <<Named(nName, TextCol), Named(nAge, IntCol)>>,
    <<Named(nAge, BoolCol), Named(nAgeX, IntCol)>>,
    <<Named(nAge, TextCol), Named(nAgeX, MixedCol)>>,
    <<Named(n7up, StampCol), Named(nName, TextCol)>> }

\* The most rows a sheet holds
MaxRows == 2

RowsOf(schema) ==
    {r \in [DOMAIN schema -> UNION {schema[j].cells : j \in DOMAIN schema}] :
        \A j \in DOMAIN schema : r[j] \in schema[j].cells}

\* The tables load_data returns: a RangeIndex, one dtype per column.  An
\* empty sheet has no rows.
Tables ==
    UNION {
      UNION {
        { [columns |-> [j \in DOMAIN schema |-> schema[j].name],
           dtypes  |-> [j \in DOMAIN schema |-> schema[j].dtype],
           index   |-> [k \in 1..n |-> k - 1],
           rows    |-> rs] : rs \in [1..n -> RowsOf(schema)] }
        : n \in 0..(IF schema = <<>> THEN 0 ELSE MaxRows) }
      : schema \in Schemas }

ColumnSet(df) == {df.columns[j] : j \in DOMAIN df.columns}

\* The selections: names of the table, with or without a name it lacks
Selections(df) == SUBSET (ColumnSet(df) \cup {nAbsent})

SelectRows(df, keep) ==
    LET F[k \in 0..Len(df.rows)] ==
            IF k = 0 THEN <<>>
            ELSE IF keep[k] THEN Append(F[k - 1], k) ELSE F[k - 1]
        ks == F[Len(df.rows)]
    IN  [df EXCEPT !.index = [i \in DOMAIN ks |-> df.index[ks[i]]],
                   !.rows  = [i \in DOMAIN ks |-> df.rows[ks[i]]]]

---------------------------------------------------------------------------
(* clean_data                                                              *)

\* The patterns of lines 98-103, matched with (?i) between ^ and $
NullTokens == { <<"n", "a">>,
                <<"n", "u", "l", "l">>,
                <<"n","o","t"," ","a","v","a","i","l","a","b","l","e">>,
                <<"n", "a", "n">>,
                <<"n", "o", "n", "e">>,
                <<"n", "s">> }

\* A slip: the (?i) flag is left out of the patterns.
regex_matches_cased(s) ==
    \/ s \in { <<"N", "A">>, <<"n", "u", "l", "l">>,
               <<"n","o","t"," ","a","v","a","i","l","a","b","l","e">>,
               <<"n", "a", "n">>, <<"N", "o", "n", "e">>, <<"n", "s">> }
    \/ \A i \in DOMAIN s : s[i] \in Whitespace

\* Whether one of the patterns of the replace matches s
regex_matches(s) ==
    \/ lower(s) \in NullTokens
    \/ \A i \in DOMAIN s : s[i] \in Whitespace

\* A slip: astype(str) is left out, a cell no pattern matches keeps its value.
clean_cell_keep(c) ==
    IF regex_matches(strip(c.text, Whitespace)) THEN cNA ELSE c

\* One cell of .astype(str).str.strip().replace({...}, regex=True)
clean_cell(c) ==
    LET s == strip(c.text, Whitespace)
    IN  IF regex_matches(s) THEN cNA ELSE Cell("str", s)

\* A slip: subset is left out, a missing value in any column drops the row.
dropna_all(df, subset) ==
    SelectRows(df, [k \in DOMAIN df.rows |->
        \A j \in DOMAIN df.columns : df.rows[k][j].kind \notin MissingKinds])

\* df.dropna(subset=subset)
dropna(df, subset) ==
    SelectRows(df, [k \in DOMAIN df.rows |->
        \A j \in DOMAIN df.columns :
            df.columns[j] \in subset => df.rows[k][j].kind \notin MissingKinds])

\* The loop of lines 93-105: each present selected column is replaced
clean_columns(df, cols) ==
    [df EXCEPT
        !.dtypes = [j \in DOMAIN df.columns |->
                       IF df.columns[j] \in cols THEN Object ELSE df.dtypes[j]],
        !.rows   = [k \in DOMAIN df.rows |-> [j \in DOMAIN df.columns |->
                       IF df.columns[j] \in cols THEN clean_cell(df.rows[k][j])
                       ELSE df.rows[k][j]]]]

\* A slip: df.copy() is left out, the columns are replaced in the argument.
clean_data_nocopy(df, cols) ==
    LET present == cols \cap ColumnSet(df)
    IN  IF cols # {}
        THEN [arg |-> clean_columns(df, present),
              ret |-> dropna(clean_columns(df, present), present)]
        ELSE [arg |-> df, ret |-> df]

\* clean_data: arg is the argument as the call leaves it, ret what it returns
clean_data(df, cols) ==
    LET present == cols \cap ColumnSet(df)
    IN  IF cols # {}
        THEN [arg |-> df, ret |-> dropna(clean_columns(df, present), present)]
        ELSE [arg |-> df, ret |-> df]

---------------------------------------------------------------------------
(* map_dtype_to_sql                                                        *)

Dialects == {"mysql", "postgresql", "sqlite"}

\* sub in s, of two strings
contains(sub, s) ==
    \E i \in 1..(Len(s) - Len(sub) + 1) : SubSeq(s, i, i + Len(sub) - 1) = sub

\* A slip: the integer branch tests for mysql, so sqlite gets INTEGER.
map_dtype_to_sql_intmysql(dtype, dialect) ==
    IF contains(<<"i", "n", "t">>, dtype)
    THEN (IF dialect = "mysql" THEN "INT" ELSE "INTEGER")
    ELSE IF contains(<<"f", "l", "o", "a", "t">>, dtype)
    THEN (IF dialect = "mysql" THEN "DOUBLE"
          ELSE IF dialect = "sqlite" THEN "REAL" ELSE "DOUBLE PRECISION")
    ELSE IF contains(<<"b", "o", "o", "l">>, dtype)
    THEN "BOOLEAN"
    ELSE IF contains(<<"d", "a", "t", "e", "t", "i", "m", "e">>, dtype)
    THEN (IF dialect # "postgresql" THEN "DATETIME" ELSE "TIMESTAMP")
    ELSE (IF dialect = "mysql" THEN "VARCHAR(255)" ELSE "TEXT")

map_dtype_to_sql(dtype, dialect) ==
    IF contains(<<"i", "n", "t">>, dtype)
    THEN (IF dialect # "postgresql" THEN "INT" ELSE "INTEGER")
    ELSE IF contains(<<"f", "l", "o", "a", "t">>, dtype)
    THEN (IF dialect = "mysql" THEN "DOUBLE"
          ELSE IF dialect = "sqlite" THEN "REAL" ELSE "DOUBLE PRECISION")
    ELSE IF contains(<<"b", "o", "o", "l">>, dtype)
    THEN "BOOLEAN"
    ELSE IF contains(<<"d", "a", "t", "e", "t", "i", "m", "e">>, dtype)
    THEN (IF dialect # "postgresql" THEN "DATETIME" ELSE "TIMESTAMP")
    ELSE (IF dialect = "mysql" THEN "VARCHAR(255)" ELSE "TEXT")

---------------------------------------------------------------------------
(* generate_sql                                                            *)

\* row[col] of df.iterrows(): a row is a Series built from df.values, whose
\* dtype is the common dtype of the columns.  All int64: numpy.int64.  int64
\* with float64: float64, an integer shown with ".0".  All bool:
\* numpy.bool_.  Anything else: an object array of Python values.
iterrows_value(df, c) ==
    LET ds == {df.dtypes[j] : j \in DOMAIN df.dtypes}
    IN  IF ds = {Int64} THEN Cell("numpy.int64", c.text)
        ELSE IF ds = {Int64, Float64} /\ c.kind = "int"
        THEN Cell("float", c.text \o <<".", "0">>)
        ELSE IF ds = {Bool} THEN Cell("numpy.bool_", c.text)
        ELSE c

\* Lines 157-163: the text of one value of an INSERT statement
sql_value(val) ==
    IF val.kind \in MissingKinds THEN <<"N", "U", "L", "L">>
    ELSE IF val.kind \in IntOrFloatKinds THEN val.text
    ELSE <<"'">> \o replace_quote(val.text) \o <<"'">>

\* The sidebar's default table name, and one that needs the col_ prefix
TableNames == { <<"m", "y", "_", "t", "a", "b", "l", "e">>, <<"2", " ", "T", "!">> }

\* The distinct values of a sequence, in the order of first occurrence
Distinct(s) ==
    LET F[i \in 0..Len(s)] ==
            IF i = 0 THEN <<>>
            ELSE IF \E k \in 1..(i - 1) : s[k] = s[i] THEN F[i - 1]
            ELSE Append(F[i - 1], s[i])
    IN  F[Len(s)]

\* A slip: the CREATE statement is built from the sanitized names of col_map
\* as a set, so two columns with one identifier give one definition.
generate_sql_merged(df, table_name, dialect) ==
    LET table   == sanitize_name(table_name)
        col_map == [j \in DOMAIN df.columns |-> sanitize_name(df.columns[j])]
        defs    == [j \in DOMAIN df.columns |->
                       [name |-> col_map[j],
                        type |-> map_dtype_to_sql(df.dtypes[j], dialect)]]
        keep    == Distinct(col_map)
    IN  [create  |-> [table |-> table,
                      col_defs |-> [i \in DOMAIN keep |->
                          defs[CHOOSE j \in DOMAIN defs : col_map[j] = keep[i]]]],
         inserts |-> [k \in DOMAIN df.rows |->
                        [table |-> table, col_names |-> col_map,
                         values |-> [j \in DOMAIN df.columns |->
                            sql_value(iterrows_value(df, df.rows[k][j]))]]]]

\* generate_sql.  create is CREATE TABLE IF NOT EXISTS <table> (...) with one
\* line "<name> <type>" per element of col_defs; inserts holds the statements
\* INSERT INTO <table> (<col_names>) VALUES (<values>); that "\n".join
\* joins, the empty sequence being the empty text.
generate_sql(df, table_name, dialect) ==
    LET table   == sanitize_name(table_name)
        col_map == [j \in DOMAIN df.columns |-> sanitize_name(df.columns[j])]
    IN  [create  |-> [table |-> table,
                      col_defs |-> [j \in DOMAIN df.columns |->
                          [name |-> col_map[j],
                           type |-> map_dtype_to_sql(df.dtypes[j], dialect)]]],
         inserts |-> [k \in DOMAIN df.rows |->
                        [table |-> table, col_names |-> col_map,
                         values |-> [j \in DOMAIN df.columns |->
                            sql_value(iterrows_value(df, df.rows[k][j]))]]]]

---------------------------------------------------------------------------
(* The pipeline of the main script, lines 241-315: load, clean, generate   *)

NoTable == [columns |-> <<>>, dtypes |-> <<>>, index |-> <<>>, rows |-> <<>>]
NoSql   == [create |-> [table |-> <<>>, col_defs |-> <<>>], inserts |-> <<>>]

\* The values the variables of the other parts keep
NameIdle == name = <<>> /\ sanitized = <<>> /\ resanitized = <<>>
            /\ pcName = "idle"
PipeIdle == original_df = NoTable /\ selected_cols = {} /\ cleaned_df = NoTable
            /\ sql_dialect = "mysql" /\ sql_out = NoSql
            /\ loaded_df = NoTable /\ df_seen = NoTable
            /\ pc = "idle"
UiIdle   == uploaded_file = "NoFile" /\ selected_sheet = "NoSheet"
            /\ process_started = FALSE /\ process_sheet = "NoSheet"
            /\ clicked = FALSE /\ pipeline_ran = FALSE /\ ever_clicked = FALSE
            /\ last_click_sheet = "NoSheet" /\ reruns = 0

\* original_df = load_data(...), selected_cleaning_cols from the multiselect
Init ==
    /\ original_df \in Tables
    /\ selected_cols \in Selections(original_df)
    /\ cleaned_df = NoTable
    /\ sql_dialect = "mysql"
    /\ sql_out = NoSql
    /\ loaded_df = original_df
    /\ df_seen = NoTable
    /\ pc = "loaded"
    /\ NameIdle
    /\ UiIdle

\* Line 272: cleaned_df = clean_data(original_df, selected_cleaning_cols)
Clean ==
    /\ pc = "loaded"
    /\ LET call == clean_data(original_df, selected_cols)
       IN  /\ original_df' = call.arg
           /\ cleaned_df' = call.ret
           /\ df_seen' = call.ret
    /\ pc' = "cleaned"
    /\ UNCHANGED <<selected_cols, sql_dialect, sql_out, loaded_df,
                   nameVars, uiVars>>

\* Line 315: generate_sql(cleaned_df, sql_table_name, sql_dialect)
GenerateSql ==
    /\ pc = "cleaned"
    /\ \E table_name \in TableNames, dialect \in Dialects :
          /\ sql_dialect' = dialect
          /\ sql_out' = generate_sql(cleaned_df, table_name, dialect)
    /\ pc' = "generated"
    /\ UNCHANGED <<original_df, selected_cols, cleaned_df, loaded_df,
                   df_seen, nameVars, uiVars>>

Next == Clean \/ GenerateSql

Spec == Init /\ [][Next]_vars

---------------------------------------------------------------------------
(* sanitize_name on every short string, applied once and then to its own   *)
(* output                                                                  *)

\* The characters of the input strings: a lower-case and an upper-case
\* letter, a digit, the underscore, whitespace, a symbol, two letters
\* outside ASCII
InputChars == {"a", "B", "7", "_", " ", "-", "U+00E9", "U+0130"}

\* The longest input string
MaxNameLen == 3

Names == UNION {[1..n -> InputChars] : n \in 0..MaxNameLen}

InitName ==
    /\ name \in Names
    /\ sanitized = <<>>
    /\ resanitized = <<>>
    /\ pcName = "input"
    /\ PipeIdle
    /\ UiIdle

SanitizeOnce ==
    /\ pcName = "input"
    /\ sanitized' = sanitize_name(name)
    /\ pcName' = "once"
    /\ UNCHANGED <<name, resanitized, pipeVars, uiVars>>

SanitizeTwice ==
    /\ pcName = "once"
    /\ resanitized' = sanitize_name(sanitized)
    /\ pcName' = "twice"
    /\ UNCHANGED <<name, sanitized, pipeVars, uiVars>>

NextName == SanitizeOnce \/ SanitizeTwice

SpecSanitize == InitName /\ [][NextName]_vars

---------------------------------------------------------------------------
(* The reruns of the script, lines 211-244: every event of the page runs   *)
(* the script again, st.session_state living through the session           *)

\* The workbooks: three sheets, one sheet, one whose sheet names cannot be read
Files == {"book.xlsx", "single.xlsx", "broken.xlsx"}

\* get_sheet_names: None when pd.ExcelFile raises
get_sheet_names(file) ==
    CASE file = "book.xlsx"   -> <<"Sheet1", "Sheet2", "Sheet3">>
      [] file = "single.xlsx" -> <<"Sheet1">>
      [] OTHER                -> "None"

\* The most reruns of a session
MaxReruns == 7

\* A slip: the block of line 238 tests the flag alone, not the sheet.
run_script_flagonly(file, choice, click) ==
    LET sheet_names == get_sheet_names(file)
    IN  IF file # "NoFile" /\ sheet_names # "None"
        THEN LET sheet   == IF Len(sheet_names) > 1 THEN choice
                            ELSE sheet_names[1]
                 started == IF click THEN TRUE ELSE process_started
                 psheet  == IF click THEN sheet ELSE process_sheet
             IN  [selected_sheet |-> sheet, process_started |-> started,
                  process_sheet |-> psheet, pipeline_ran |-> started]
        ELSE [selected_sheet |-> "NoSheet", process_started |-> process_started,
              process_sheet |-> process_sheet, pipeline_ran |-> FALSE]

\* One run of lines 213-244 with the uploader holding file, the selectbox
\* holding choice and the button returning click: the sheet of the run, the
\* session state it leaves, and whether it entered the block of line 238.
run_script(file, choice, click) ==
    LET sheet_names == get_sheet_names(file)
    IN  IF file # "NoFile" /\ sheet_names # "None"
        THEN LET sheet   == IF Len(sheet_names) > 1 THEN choice
                            ELSE sheet_names[1]
                 started == IF click THEN TRUE ELSE process_started
                 psheet  == IF click THEN sheet ELSE process_sheet
             IN  [selected_sheet |-> sheet, process_started |-> started,
                  process_sheet |-> psheet,
                  pipeline_ran |-> started /\ psheet = sheet]
        ELSE [selected_sheet |-> "NoSheet", process_started |-> process_started,
              process_sheet |-> process_sheet, pipeline_ran |-> FALSE]

\* The rerun an event causes
Rerun(file, choice, click) ==
    LET run == run_script(file, choice, click)
    IN  /\ reruns < MaxReruns
        /\ reruns' = reruns + 1
        /\ uploaded_file' = file
        /\ clicked' = click
        /\ selected_sheet' = run.selected_sheet
        /\ process_started' = run.process_started
        /\ process_sheet' = run.process_sheet
        /\ pipeline_ran' = run.pipeline_ran
        /\ ever_clicked' = (ever_clicked \/ click)
        /\ last_click_sheet' = IF click THEN run.selected_sheet
                               ELSE last_click_sheet
        /\ UNCHANGED <<nameVars, pipeVars>>

InitUI ==
    /\ UiIdle
    /\ NameIdle
    /\ PipeIdle

\* A file is put in the uploader or taken out of it; a selectbox that is
\* drawn anew shows its first option (index=0).
Upload ==
    \E file \in Files \cup {"NoFile"} :
        /\ file # uploaded_file
        /\ Rerun(file, "Sheet1", FALSE)

\* Another sheet is chosen in the selectbox, drawn for several sheets only
SelectSheet ==
    /\ uploaded_file # "NoFile"
    /\ get_sheet_names(uploaded_file) # "None"
    /\ Len(get_sheet_names(uploaded_file)) > 1
    /\ \E i \in DOMAIN get_sheet_names(uploaded_file) :
          /\ get_sheet_names(uploaded_file)[i] # selected_sheet
          /\ Rerun(uploaded_file, get_sheet_names(uploaded_file)[i], FALSE)

\* Start Process is clicked: the button is drawn once the sheets are read
ClickStart ==
    /\ uploaded_file # "NoFile"
    /\ get_sheet_names(uploaded_file) # "None"
    /\ Rerun(uploaded_file, selected_sheet, TRUE)

\* A widget of the sidebar changes
SidebarChange ==
    Rerun(uploaded_file, selected_sheet, FALSE)

NextUI == Upload \/ SelectSheet \/ ClickStart \/ SidebarChange

SpecUI == InitUI /\ [][NextUI]_vars

---------------------------------------------------------------------------
(* Properties of clean_data                                                *)

\* A text that, compared case-insensitively, is a null-like token
IsNullToken(s) == lower(s) \in NullTokens
IsBlank(s) == \A i \in DOMAIN s : s[i] \in Whitespace

\* The columns of the loaded table that the selection names
PresentSelected ==
    {j \in DOMAIN loaded_df.columns : loaded_df.columns[j] \in selected_cols}

\* The trimmed text of a cell of the loaded table is null-like or empty
NullLikeCell(c) ==
    LET s == strip(c.text, Whitespace) IN IsNullToken(s) \/ s = <<>>

\* Row k of the loaded table holds a null-like cell in a selected column
RowIsNullLike(k) ==
    \E j \in PresentSelected : NullLikeCell(loaded_df.rows[k][j])

Cleaned == pc \in {"cleaned", "generated"}

\* C1: after clean_data, no cell of a selected column that the table has is
\* a string equal, case-insensitively, to NA, null, not available, nan, none
\* or ns, and none is an empty or whitespace-only string.
C1_NoNullLikeLeft ==
    Cleaned =>
        \A j \in DOMAIN cleaned_df.columns :
            cleaned_df.columns[j] \in selected_cols =>
                \A k \in DOMAIN cleaned_df.rows :
                    LET c == cleaned_df.rows[k][j]
                    IN  c.kind = "str" =>
                            ~IsNullToken(c.text) /\ ~IsBlank(c.text)

\* A selected text column held " nA " in one row and a kept text in another
C1_Witness ==
    /\ pc = "cleaned"
    /\ \E j \in PresentSelected :
          /\ \E k \in DOMAIN loaded_df.rows : loaded_df.rows[k][j] = cPadNA
          /\ \E k \in DOMAIN cleaned_df.rows :
                cleaned_df.rows[k][j] = Cell("str", <<"n", "s", "x">>)

\* C2: clean_data never adds a row; it keeps every row exactly when no
\* selected column of the table holds a cell whose trimmed text is a
\* null-like token or empty; and the rows it drops are exactly those with
\* such a cell in a selected column.
C2_RowsDropped ==
    Cleaned =>
        /\ Len(cleaned_df.rows) <= Len(loaded_df.rows)
        /\ (Len(cleaned_df.rows) = Len(loaded_df.rows))
              <=> (\A k \in DOMAIN loaded_df.rows : ~RowIsNullLike(k))
        /\ \A k \in DOMAIN loaded_df.rows :
              (\E i \in DOMAIN cleaned_df.index : cleaned_df.index[i] = k - 1)
                  <=> ~RowIsNullLike(k)

\* Of two rows, one was dropped for a null-like cell in a selected column,
\* the other was kept though it holds a missing value in another column
C2_Witness ==
    /\ pc = "cleaned"
    /\ Len(loaded_df.rows) = 2
    /\ Len(cleaned_df.rows) = 1
    /\ \E j \in DOMAIN cleaned_df.columns :
          /\ cleaned_df.columns[j] \notin selected_cols
          /\ cleaned_df.rows[1][j].kind \in MissingKinds

\* C3: clean_data keeps the columns and their order, keeps the cells of the
\* columns outside the selection in every row it retains, keeps the retained
\* rows in their order, and leaves its argument as it was; with an empty
\* selection it returns the table unchanged.
C3_CleanFrame ==
    Cleaned =>
        /\ cleaned_df.columns = loaded_df.columns
        /\ original_df = loaded_df
        /\ \A a, b \in DOMAIN cleaned_df.index :
              a < b => cleaned_df.index[a] < cleaned_df.index[b]
        /\ \A i \in DOMAIN cleaned_df.rows :
              /\ cleaned_df.index[i] + 1 \in DOMAIN loaded_df.rows
              /\ \A j \in DOMAIN loaded_df.columns :
                    loaded_df.columns[j] \notin selected_cols =>
                        cleaned_df.rows[i][j]
                            = loaded_df.rows[cleaned_df.index[i] + 1][j]
        /\ selected_cols = {} => cleaned_df = loaded_df

\* The selection names a column of the table and one it lacks, a row was
\* dropped and the row kept has a cell outside the selection
C3_Witness ==
    /\ pc = "cleaned"
    /\ nAbsent \in selected_cols
    /\ PresentSelected # {}
    /\ PresentSelected # DOMAIN loaded_df.columns
    /\ Len(loaded_df.rows) = 2
    /\ cleaned_df.index = <<1>>

---------------------------------------------------------------------------
(* Properties of map_dtype_to_sql and generate_sql                         *)

Generated == pc = "generated"

\* The semantic type of a column of a loaded table
SemanticType(dtype) ==
    CASE dtype = Int64    -> "integer"
      [] dtype = Float64  -> "floating-point"
      [] dtype = Bool     -> "boolean"
      [] dtype = Datetime -> "timestamp"
      [] OTHER            -> "other"

\* The lookup table of the mapping
TypeTable ==
    [integer |->
        [mysql |-> "INT", postgresql |-> "INTEGER", sqlite |-> "INT"],
     floating |->
        [mysql |-> "DOUBLE", postgresql |-> "DOUBLE PRECISION", sqlite |-> "REAL"],
     boolean |->
        [mysql |-> "BOOLEAN", postgresql |-> "BOOLEAN", sqlite |-> "BOOLEAN"],
     timestamp |->
        [mysql |-> "DATETIME", postgresql |-> "TIMESTAMP", sqlite |-> "DATETIME"],
     other |->
        [mysql |-> "VARCHAR(255)", postgresql |-> "TEXT", sqlite |-> "TEXT"]]

TypeRow(dtype) ==
    LET t == SemanticType(dtype)
    IN  CASE t = "integer"        -> TypeTable.integer
          [] t = "floating-point" -> TypeTable.floating
          [] t = "boolean"        -> TypeTable.boolean
          [] t = "timestamp"      -> TypeTable.timestamp
          [] OTHER                -> TypeTable.other

\* C6: the type of every column definition is the entry of the lookup table
\* for the column's semantic type and the dialect: integer gives INT,
\* INTEGER, INT; floating-point DOUBLE, DOUBLE PRECISION, REAL; boolean
\* BOOLEAN; timestamp DATETIME, TIMESTAMP, DATETIME; any other type
\* VARCHAR(255), TEXT, TEXT (for mysql, postgresql, sqlite).
C6_TypeTable ==
    Generated =>
        \A j \in DOMAIN cleaned_df.dtypes :
            /\ j \in DOMAIN sql_out.create.col_defs
            /\ sql_out.create.col_defs[j].type
                  = TypeRow(cleaned_df.dtypes[j])[sql_dialect]

\* An integer column beside a text column, generated for sqlite
C6_Witness ==
    /\ Generated
    /\ sql_dialect = "sqlite"
    /\ cleaned_df.dtypes = <<Object, Int64>>
    /\ sql_out.create.col_defs[1].type = "TEXT"
    /\ sql_out.create.col_defs[2].type = "INT"

NULL == <<"N", "U", "L", "L">>

IsQuoted(v) == Len(v) >= 2 /\ v[1] = "'" /\ v[Len(v)] = "'"

\* The text between the quotes of a quoted value
Inner(v) == SubSeq(v, 2, Len(v) - 1)

\* Every quote of s is one of a pair
RECURSIVE QuotesDoubled(_)
QuotesDoubled(s) ==
    IF s = <<>> THEN TRUE
    ELSE IF Head(s) # "'" THEN QuotesDoubled(Tail(s))
    ELSE Len(s) >= 2 /\ s[2] = "'" /\ QuotesDoubled(Tail(Tail(s)))

\* s with each pair of quotes made one quote
RECURSIVE Unescape(_)
Unescape(s) ==
    IF s = <<>> THEN <<>>
    ELSE IF Len(s) >= 2 /\ s[1] = "'" /\ s[2] = "'"
    THEN <<"'">> \o Unescape(Tail(Tail(s)))
    ELSE <<Head(s)>> \o Unescape(Tail(s))

\* The texts of a number: as stored, or as the float it is turned into
NumberTexts(c) == {c.text, c.text \o <<".", "0">>}

\* C7: in every INSERT statement a missing value is NULL, an integer or
\* floating-point value is its text without quotes, and every other value
\* (text, boolean, timestamp) stands between single quotes with each quote
\* of its content doubled, so that un-escaping gives the content back.
C7_ValueByType ==
    Generated =>
        \A k \in DOMAIN cleaned_df.rows : \A j \in DOMAIN cleaned_df.columns :
            LET c == cleaned_df.rows[k][j]
                v == sql_out.inserts[k].values[j]
            IN  IF c.kind \in MissingKinds THEN v = NULL
                ELSE IF c.kind \in {"int", "float"} THEN v \in NumberTexts(c)
                ELSE /\ IsQuoted(v)
                     /\ QuotesDoubled(Inner(v))
                     /\ Unescape(Inner(v)) = c.text

\* What value v says of cell c, quoted or not
ValueOf(v, c) ==
    IF c.kind \in MissingKinds THEN v = NULL
    ELSE (IF IsQuoted(v) THEN Unescape(Inner(v)) ELSE v) \in NumberTexts(c)

\* C8: generate_sql gives a CREATE statement with one column definition per
\* column of the table, in the table's order and also when two names
\* sanitize to one identifier, and one INSERT statement per row, the k-th
\* holding the values of the k-th row in column order; with no row there is
\* no INSERT statement and the CREATE statement still has every column; the
\* table is left as it was.
C8_Statements ==
    Generated =>
        LET m == Len(cleaned_df.columns)
            n == Len(cleaned_df.rows)
        IN  /\ Len(sql_out.create.col_defs) = m
            /\ \A j \in 1..m :
                  sql_out.create.col_defs[j].name
                      = sanitize_name(cleaned_df.columns[j])
            /\ Len(sql_out.inserts) = n
            /\ \A k \in 1..n :
                  /\ Len(sql_out.inserts[k].values) = m
                  /\ Len(sql_out.inserts[k].col_names) = m
                  /\ \A j \in 1..m :
                        ValueOf(sql_out.inserts[k].values[j],
                                cleaned_df.rows[k][j])
            /\ cleaned_df = df_seen

\* Two columns with one identifier and two rows that differ
C8_Witness ==
    /\ Generated
    /\ Len(cleaned_df.columns) = 2
    /\ sql_out.create.col_defs[1].name = sql_out.create.col_defs[2].name
    /\ Len(sql_out.inserts) = 2
    /\ sql_out.inserts[1].values # sql_out.inserts[2].values

\* C9: after clean_data, every selected column of the table is text: its
\* column definition has the dialect's text type (VARCHAR(255) for mysql,
\* TEXT otherwise) and each of its values in every INSERT statement is
\* single-quoted, never bare and never NULL.
C9_SelectedIsText ==
    Generated =>
        \A j \in DOMAIN cleaned_df.columns :
            cleaned_df.columns[j] \in selected_cols =>
                /\ sql_out.create.col_defs[j].type
                      = (IF sql_dialect = "mysql" THEN "VARCHAR(255)" ELSE "TEXT")
                /\ \A k \in DOMAIN sql_out.inserts :
                      /\ IsQuoted(sql_out.inserts[k].values[j])
                      /\ sql_out.inserts[k].values[j] # NULL

\* A selected integer column whose value 30 is emitted as quoted text
C9_Witness ==
    /\ Generated
    /\ \E j \in PresentSelected :
          /\ loaded_df.dtypes[j] = Int64
          /\ \E k \in DOMAIN sql_out.inserts :
                sql_out.inserts[k].values[j] = <<"'", "3", "0", "'">>

---------------------------------------------------------------------------
(* Properties of sanitize_name                                             *)

AsciiChars == AsciiUpper \cup AsciiLower \cup Digits
                  \cup Whitespace \cup {"_", "-"}
IsAscii(s) == \A i \in DOMAIN s : s[i] \in AsciiChars
HasAlnum(s) ==
    \E i \in DOMAIN s : s[i] \in AsciiUpper \cup AsciiLower \cup Digits

\* ^[a-z_][a-z0-9_]*$
IsIdentifier(s) ==
    /\ s # <<>>
    /\ s[1] \in AsciiLower \cup {"_"}
    /\ \A i \in DOMAIN s : s[i] \in AsciiLower \cup Digits \cup {"_"}

\* C4 as stated: sanitize_name(sanitize_name(x)) = sanitize_name(x) for
\* every string x.
C4_Idempotent ==
    pcName = "twice" => resanitized = sanitized

\* C4 as amended: sanitize_name(sanitize_name(x)) = sanitize_name(x) for
\* every ASCII string x that holds a letter or a digit; for an ASCII x that
\* holds none, sanitize_name(x) is col_ and sanitizing that gives col.
C4_IdempotentOnAlnum ==
    (pcName = "twice" /\ IsAscii(name)) =>
        IF HasAlnum(name) THEN resanitized = sanitized
        ELSE sanitized = col_prefix /\ resanitized = <<"c", "o", "l">>

\* A digit-leading name with an upper-case letter, sanitized twice
C4_Witness ==
    /\ pcName = "twice"
    /\ IsAscii(name)
    /\ Len(name) = 3
    /\ isdigit(name[1])
    /\ name[3] \in AsciiUpper
    /\ resanitized = sanitized
    /\ sanitized # name

\* C5 as stated: for every string x, sanitize_name(x) matches
\* ^[a-z_][a-z0-9_]*$: it is not empty, starts with a letter or an
\* underscore, and holds only lower-case letters, digits and underscores.
C5_Identifier ==
    pcName \in {"once", "twice"} => IsIdentifier(sanitized)

\* C5 as amended: for every string x, sanitize_name(x) is not empty and does
\* not start with a digit; for every ASCII string x it matches
\* ^[a-z_][a-z0-9_]*$.
C5_IdentifierOnAscii ==
    pcName \in {"once", "twice"} =>
        /\ sanitized # <<>>
        /\ ~isdigit(sanitized[1])
        /\ IsAscii(name) => IsIdentifier(sanitized)

\* A digit-leading ASCII name got the col_ prefix
C5_Witness ==
    /\ pcName = "once"
    /\ IsAscii(name)
    /\ name # <<>>
    /\ isdigit(name[1])
    /\ Len(sanitized) > 4
    /\ SubSeq(sanitized, 1, 4) = col_prefix

---------------------------------------------------------------------------
(* Properties of the reruns                                                *)

SheetsRead ==
    uploaded_file # "NoFile" /\ get_sheet_names(uploaded_file) # "None"

\* C10: a rerun enters the pipeline only if a file is uploaded, its sheet
\* names were read, Start Process was clicked in the session and the sheet
\* of the rerun is the one recorded at the latest click; process_started is
\* never reset; so another sheet hides the output and the recorded sheet
\* shows it again without a click.
C10_Gating ==
    /\ pipeline_ran =>
          SheetsRead /\ ever_clicked /\ last_click_sheet = selected_sheet
    /\ process_started = ever_clicked
    /\ ever_clicked => process_sheet = last_click_sheet
    /\ (SheetsRead /\ ever_clicked /\ selected_sheet # last_click_sheet)
          => ~pipeline_ran
    /\ (SheetsRead /\ ever_clicked /\ selected_sheet = last_click_sheet)
          => pipeline_ran

\* The output is shown in a rerun without a click, for a sheet other than
\* the first: Start was clicked on it in an earlier rerun
C10_Witness ==
    /\ pipeline_ran
    /\ ~clicked
    /\ selected_sheet = "Sheet2"
    /\ reruns >= 4

=============================================================================
